---- MODULE Spec2Model ----
(***************************************************************************)
(* Model of the Student_Dashboard domain model and application logic       *)
(* (src/logic.py, src/study_program.py, src/semester.py, src/module.py,    *)
(* src/student.py, src/data_management.py).                                *)
(*                                                                         *)
(* Conventions                                                             *)
(*  - a Python str is a sequence of one-character strings ("3.0" is        *)
(*    <<"3", ".", "0">>), so that strip(), lower(), replace() and float()  *)
(*    are computed character by character;                                 *)
(*  - a Python float is an integer number of tenths (3.0 is 30); the       *)
(*    inputs of the model carry at most one fractional digit;              *)
(*  - a Python object is a record of its attributes, a dict a record of    *)
(*    its keys; None and JSON null are the record None.                    *)
(***************************************************************************)
EXTENDS Integers, Sequences, FiniteSets, TLC

\* ------------------------------------------------------------------------
\* Bounds of the model
\* ------------------------------------------------------------------------
MaxSemester == 2
MaxModules == 2
MaxClock == 1
MaxGradedModules == 2

\* The modules of the specification of the progress metrics
MaxMetricModules == 2

\* The entries of the stored resource list
MaxResources == 2

\* ------------------------------------------------------------------------
\* Python values
\* ------------------------------------------------------------------------
None == [none |-> TRUE]

Float(x) == [float |-> x]

Str(s) == [str |-> s]

IsFloat(v) == DOMAIN v = {"float"}

IsStr(v) == DOMAIN v = {"str"}

\* ------------------------------------------------------------------------
\* str methods: strip(), lower(), replace(' ', '_'), float(str)
\* ------------------------------------------------------------------------
Whitespace == {" "}

Digits == {"0", "1", "2", "3", "4", "5", "6", "7", "8", "9"}

DigitValue(c) ==
  CASE c = "0" -> 0 [] c = "1" -> 1 [] c = "2" -> 2 [] c = "3" -> 3
    [] c = "4" -> 4 [] c = "5" -> 5 [] c = "6" -> 6 [] c = "7" -> 7
    [] c = "8" -> 8 [] c = "9" -> 9

RECURSIVE lstrip(_)
lstrip(s) ==
  IF s # <<>> /\ Head(s) \in Whitespace THEN lstrip(Tail(s)) ELSE s

RECURSIVE rstrip(_)
rstrip(s) ==
  IF s # <<>> /\ s[Len(s)] \in Whitespace
    THEN rstrip(SubSeq(s, 1, Len(s) - 1))
    ELSE s

strip(s) == rstrip(lstrip(s))

lower_char(c) ==
  CASE c = "A" -> "a" [] c = "B" -> "b" [] c = "C" -> "c" [] OTHER -> c

lower(s) == [i \in 1..Len(s) |-> lower_char(s[i])]

\* name.replace(' ', '_')
replace_space(s) == [i \in 1..Len(s) |-> IF s[i] = " " THEN "_" ELSE s[i]]

AllDigits(s) == \A i \in 1..Len(s) : s[i] \in Digits

RECURSIVE DecimalValue(_)
DecimalValue(s) ==
  IF s = <<>> THEN 0
  ELSE 10 * DecimalValue(SubSeq(s, 1, Len(s) - 1)) + DigitValue(s[Len(s)])

\* Position of the first "." of s, or 0.
RECURSIVE DotIndexFrom(_, _)
DotIndexFrom(s, i) ==
  IF i > Len(s) THEN 0
  ELSE IF s[i] = "." THEN i
  ELSE DotIndexFrom(s, i + 1)

\* float(s) of the builtin: surrounding whitespace is ignored, then an
\* optional sign, then digits with an optional fractional part; anything else
\* raises ValueError (ok = FALSE).  The value is in tenths.
float(s) ==
  LET t == strip(s)
      signed == t # <<>> /\ Head(t) \in {"+", "-"}
      sign == IF signed /\ Head(t) = "-" THEN -1 ELSE 1
      body == IF signed THEN Tail(t) ELSE t
      dot == DotIndexFrom(body, 1)
      intpart == IF dot = 0 THEN body ELSE SubSeq(body, 1, dot - 1)
      fracpart == IF dot = 0 THEN <<>> ELSE SubSeq(body, dot + 1, Len(body))
      wellformed == /\ AllDigits(intpart)
                    /\ AllDigits(fracpart)
                    /\ Len(intpart) + Len(fracpart) > 0
      tenths == IF fracpart = <<>> THEN 0 ELSE DigitValue(fracpart[1])
  IN IF wellformed
       THEN [ok |-> TRUE, value |-> sign * (10 * DecimalValue(intpart) + tenths)]
       ELSE [ok |-> FALSE, value |-> 0]

\* ------------------------------------------------------------------------
\* True division: the quotient of two numbers is the fraction in lowest
\* terms with a positive denominator, so that two quotients are equal exactly
\* when the two fractions are.
\* ------------------------------------------------------------------------
Abs(x) == IF x < 0 THEN -x ELSE x

RECURSIVE GCD(_, _)
GCD(a, b) == IF b = 0 THEN a ELSE GCD(b, a % b)

Fraction(n, d) ==
  LET g == GCD(Abs(n), Abs(d))
      sign == IF d < 0 THEN -1 ELSE 1
  IN [num |-> (sign * n) \div g, den |-> (sign * d) \div g]

\* ------------------------------------------------------------------------
\* module.py: Grade and Modul
\* ------------------------------------------------------------------------
\* Grade(grade): an object with the one attribute grade.
Grade(value) == [grade |-> value]

\* The constructor with the grade dropped.
Modul_without_grade(id, name, credits, exam_type, grade) ==
  [id |-> id, name |-> name, credits |-> credits, exam_type |-> exam_type,
   grade |-> None]

\* Modul(id, name, credits, exam_type, grade); grade is None or a Grade.
Modul(id, name, credits, exam_type, grade) ==
  [id |-> id, name |-> name, credits |-> credits, exam_type |-> exam_type,
   grade |-> grade]

Grade_to_dict(g) == [grade |-> g.grade]

Grade_from_dict(data) == Grade(data.grade)

Modul_to_dict(m) ==
  [id |-> m.id, name |-> m.name, credits |-> m.credits,
   exam_type |-> m.exam_type,
   grade |-> IF m.grade # None THEN Grade_to_dict(m.grade) ELSE None]

\* from_dict that builds a Grade from a number only.
Modul_from_dict_numbers_only(data) ==
  Modul(data.id, data.name, data.credits, data.exam_type,
        IF data.grade # None /\ IsFloat(data.grade.grade)
          THEN Grade_from_dict(data.grade) ELSE None)

Modul_from_dict(data) ==
  Modul(data.id, data.name, data.credits, data.exam_type,
        IF data.grade # None THEN Grade_from_dict(data.grade) ELSE None)

\* status() with the pass mark at 5.0 instead of 4.0.
status_pass_mark_5(m) ==
  IF m.grade = None THEN "none"
  ELSE IF IsStr(m.grade.grade) /\ lower(m.grade.grade.str) = <<"a">>
    THEN "accepted"
  ELSE IF IsFloat(m.grade.grade) /\ m.grade.grade.float <= 50
    THEN "passed"
  ELSE "none"

status(m) ==
  IF m.grade = None THEN "none"
  ELSE IF IsStr(m.grade.grade) /\ lower(m.grade.grade.str) = <<"a">>
    THEN "accepted"
  ELSE IF IsFloat(m.grade.grade) /\ m.grade.grade.float <= 40
    THEN "passed"
  ELSE "none"

\* ------------------------------------------------------------------------
\* semester.py: Semester
\* ------------------------------------------------------------------------
Semester(number) == [number |-> number, modules |-> <<>>]

\* add_module_to_semester that puts the module in front.
add_module_to_semester_front(semester, modul) ==
  [semester EXCEPT !.modules = <<modul>> \o @]

add_module_to_semester(semester, modul) ==
  [semester EXCEPT !.modules = Append(@, modul)]

Semester_to_dict(semester) ==
  [number |-> semester.number,
   modules |-> [i \in 1..Len(semester.modules) |->
                  Modul_to_dict(semester.modules[i])]]

Semester_from_dict(data) ==
  [number |-> data.number,
   modules |-> [i \in 1..Len(data.modules) |->
                  Modul_from_dict(data.modules[i])]]

\* ------------------------------------------------------------------------
\* study_program.py: Study_program
\* ------------------------------------------------------------------------
Study_program(name, total_credits) ==
  [name |-> name, total_credits |-> total_credits, semesters |-> <<>>]

\* list.insert(i, x) with a 0-based index i <= len(list).
list_insert(s, i, x) == SubSeq(s, 1, i) \o <<x>> \o SubSeq(s, i + 1, Len(s))

\* add_semester that never raises.
add_semester_raises_never(sp, semester) == FALSE

\* add_semester raises ValueError when the number is already present.
add_semester_raises(sp, semester) ==
  \E i \in 1..Len(sp.semesters) : sp.semesters[i].number = semester.number

\* The 0-based index of the first semester with a greater number, or -1 for
\* insertion_index = None.
insertion_index(sp, semester) ==
  LET greater == {i \in 1..Len(sp.semesters) :
                    sp.semesters[i].number > semester.number}
  IN IF greater = {} THEN -1
     ELSE (CHOOSE i \in greater : \A j \in greater : i <= j) - 1

\* add_semester that always appends.
add_semester_append(sp, semester) ==
  [sp EXCEPT !.semesters = Append(@, semester)]

\* add_semester when it does not raise.
add_semester(sp, semester) ==
  LET idx == insertion_index(sp, semester)
  IN [sp EXCEPT !.semesters =
        IF idx # -1 THEN list_insert(@, idx, semester)
        ELSE Append(@, semester)]

\* remove_semester without the second filter.
remove_semester_keeps_empty(sp, semester_number) ==
  LET IsOther(semester) == semester.number # semester_number
  IN [sp EXCEPT !.semesters = SelectSeq(@, IsOther)]

remove_semester(sp, semester_number) ==
  LET IsOther(semester) == semester.number # semester_number
      HasModules(semester) == semester.modules # <<>>
  IN [sp EXCEPT !.semesters =
        SelectSeq(SelectSeq(@, IsOther), HasModules)]

\* get_semester returns a reference to the semester object; the model returns
\* its 1-based position in sp.semesters, and 0 for None.
get_semester(sp, semester_number) ==
  LET found == {i \in 1..Len(sp.semesters) :
                  sp.semesters[i].number = semester_number}
  IN IF found = {} THEN 0
     ELSE CHOOSE i \in found : \A j \in found : i <= j

RECURSIVE SumCredits(_)
SumCredits(modules) ==
  IF modules = <<>> THEN 0
  ELSE Head(modules).credits + SumCredits(Tail(modules))

\* All modules of all semesters, in iteration order.
RECURSIVE AllModules(_)
AllModules(semesters) ==
  IF semesters = <<>> THEN <<>>
  ELSE Head(semesters).modules \o AllModules(Tail(semesters))

\* The stored target in place of the sum.
Study_program_get_total_credits_stored(sp) == sp.total_credits

Study_program_get_total_credits(sp) == SumCredits(AllModules(sp.semesters))

Study_program_to_dict(sp) ==
  [name |-> sp.name, total_credits |-> sp.total_credits,
   semesters |-> [i \in 1..Len(sp.semesters) |->
                    Semester_to_dict(sp.semesters[i])]]

Study_program_from_dict(data) ==
  LET loaded == [name |-> data.name, total_credits |-> data.total_credits,
                 semesters |-> [i \in 1..Len(data.semesters) |->
                                  Semester_from_dict(data.semesters[i])]]
  IN [loaded EXCEPT !.total_credits = Study_program_get_total_credits(loaded)]

\* ------------------------------------------------------------------------
\* student.py: Student
\* ------------------------------------------------------------------------
\* Student(name, matriculation_number, study_program): the constructor sets
\* these three attributes and no study_goal.
Student(name, matriculation_number, study_program) ==
  [name |-> name, matriculation_number |-> matriculation_number,
   study_program |-> study_program]

\* to_dict reads self.study_goal: AttributeError on an object without it.
Student_to_dict_raises(st) == "study_goal" \notin DOMAIN st

Student_to_dict(st) ==
  [name |-> st.name, matriculation_number |-> st.matriculation_number,
   study_program |-> Study_program_to_dict(st.study_program),
   study_goal |-> st.study_goal]

Student_from_dict(data) ==
  [name |-> data.name, matriculation_number |-> data.matriculation_number,
   study_program |-> Study_program_from_dict(data.study_program),
   study_goal |-> data.study_goal]

\* ------------------------------------------------------------------------
\* data_management.py: the student document
\* ------------------------------------------------------------------------
\* json.dump followed by json.load gives back the same dict for the values
\* the model stores (str, int, float, list, dict, null).
\* The document with the study goal left at 0.
save_student_data_without_goal(st) ==
  [Student_to_dict(st) EXCEPT !.study_goal = 0]

save_student_data(st) == Student_to_dict(st)

\* The file that does not exist.
Missing == [missing |-> TRUE]

\* The file that open(file_path, 'w') has created or truncated and nothing
\* was written to.
EmptyFile == [empty |-> TRUE]

load_student_data(document) == Student_from_dict(document)

\* ------------------------------------------------------------------------
\* resources.py: Resource, and data_management.py: the resources document
\* ------------------------------------------------------------------------
Resource(name, url) == [name |-> name, url |-> url]

\* The dict with the two values exchanged.
Resource_to_dict_swapped(r) == [name |-> r.url, url |-> r.name]

Resource_to_dict(r) == [name |-> r.name, url |-> r.url]

\* data['resources'], or [] on FileNotFoundError.
load_resources(document) ==
  IF document = Missing THEN <<>> ELSE document.resources

save_resources(list) == [resources |-> list]

\* ------------------------------------------------------------------------
\* Inputs of the operations
\* ------------------------------------------------------------------------
SemesterNumbers == 1..MaxSemester

\* "a b"
ModuleNames == {<<"a", " ", "b">>}

CreditValues == {5}

ExamTypes == {"written"}

\* "", "a", "A", " a ", " ", "1.0", "3", "4.0", "4.1", "5.0", "5.1", "0.9",
\* "6.0", "-1", "abc", " 2.5"
GradeInputs ==
  {<<>>, <<"a">>, <<"A">>, <<" ", "a", " ">>, <<" ">>, <<"1", ".", "0">>,
   <<"3">>, <<"4", ".", "0">>, <<"4", ".", "1">>, <<"5", ".", "0">>,
   <<"5", ".", "1">>, <<"0", ".", "9">>, <<"6", ".", "0">>, <<"-", "1">>,
   <<"a", "b", "c">>, <<" ", "2", ".", "5">>}

\* The grade inputs of the specification of the program structure:
\* "", "3.0", "abc"
FewGradeInputs == {<<>>, <<"3", ".", "0">>, <<"a", "b", "c">>}

Profiles ==
  {[name |-> "Ann", matriculation_number |-> "123456",
    study_program |-> "Computer Science", study_goal |-> 20]}

\* The student document the application is started on.
InitialDocument ==
  [name |-> "New Student", matriculation_number |-> "000000",
   study_program |-> [name |-> "Undeclared Program", total_credits |-> 180,
                      semesters |-> <<>>],
   study_goal |-> 0]

\* ------------------------------------------------------------------------
\* logic.py: Logic
\* ------------------------------------------------------------------------
VARIABLES
  student,  \* self.student
  file,     \* the JSON document stored at self.file_path
  now,      \* int(time.time())
  ret,      \* the last call of the facade: the operation and what it returned
  resources_file,  \* the JSON document stored at resources.json, or Missing
  resources,       \* self.resources
  browser          \* the URL last handed to webbrowser.open, or None

vars == <<student, file, now, ret, resources_file, resources, browser>>

resource_vars == <<resources_file, resources, browser>>

\* module_id = f"module_{name.replace(' ', '_')}_{int(time.time())}": the
\* text after the last "_" is the timestamp, so the string is determined by,
\* and determines, the pair of the slug and the timestamp.
module_id(name, time) == [slug |-> replace_space(name), ts |-> time]

\* The grade rule of add_module without the range check.
add_module_grade_any_number(grade_str) ==
  IF grade_str = <<>> THEN [ok |-> TRUE, grade |-> None]
  ELSE IF lower(strip(grade_str)) = <<"a">>
    THEN [ok |-> TRUE, grade |-> Grade(Str(<<"a">>))]
  ELSE LET f == float(grade_str)
       IN IF f.ok
            THEN [ok |-> TRUE, grade |-> Grade(Float(f.value))]
            ELSE [ok |-> FALSE, grade |-> None]

\* Lines 117-128 of add_module: the grade of the new module, or the failure.
add_module_grade(grade_str) ==
  IF grade_str = <<>> THEN [ok |-> TRUE, grade |-> None]
  ELSE IF lower(strip(grade_str)) = <<"a">>
    THEN [ok |-> TRUE, grade |-> Grade(Str(<<"a">>))]
  ELSE LET f == float(grade_str)
       IN IF f.ok /\ 10 <= f.value /\ f.value <= 50
            THEN [ok |-> TRUE, grade |-> Grade(Float(f.value))]
            ELSE [ok |-> FALSE, grade |-> None]

\* Lines 158-170 of edit_grade: the new grade of the module, or the failure.
edit_grade_grade(new_grade_str) ==
  IF strip(new_grade_str) = <<>> THEN [ok |-> TRUE, grade |-> None]
  ELSE IF lower(strip(new_grade_str)) = <<"a">>
    THEN [ok |-> TRUE, grade |-> Grade(Str(<<"a">>))]
  ELSE LET f == float(new_grade_str)
       IN IF f.ok
            THEN [ok |-> TRUE, grade |-> Grade(Float(f.value))]
            ELSE [ok |-> FALSE, grade |-> None]

\* find_module_by_id that compares the name part of the id only.
find_module_by_id_by_name(st, id) ==
  LET sems == st.study_program.semesters
      hits == {p \in (1..Len(sems)) \X (1..MaxModules + 1) :
                 /\ p[2] <= Len(sems[p[1]].modules)
                 /\ sems[p[1]].modules[p[2]].id.slug = id.slug}
  IN IF hits = {} THEN <<0, 0>>
     ELSE CHOOSE p \in hits :
            \A q \in hits : p[1] < q[1] \/ (p[1] = q[1] /\ p[2] <= q[2])

\* find_module_by_id: the position <<semester index, module index>> of the
\* first module with the id in iteration order, or <<0, 0>> for (None, None).
find_module_by_id(st, id) ==
  LET sems == st.study_program.semesters
      hits == {p \in (1..Len(sems)) \X (1..MaxModules + 1) :
                 /\ p[2] <= Len(sems[p[1]].modules)
                 /\ sems[p[1]].modules[p[2]].id = id}
  IN IF hits = {} THEN <<0, 0>>
     ELSE CHOOSE p \in hits :
            \A q \in hits : p[1] < q[1] \/ (p[1] = q[1] /\ p[2] <= q[2])

Init ==
  /\ file = InitialDocument
  /\ student = load_student_data(InitialDocument)
  /\ now = 0
  /\ ret = [op |-> "__init__", ok |-> TRUE, msg |-> ""]
  /\ resources_file = Missing
  /\ resources = <<>>
  /\ browser = None

\* initialize_data, called by the constructor after self.student = None and
\* self.resources = []. Without a file the default student is created and
\* saved: save_student_data opens the file for writing and then calls
\* to_dict, whose AttributeError leaves the constructor. A file without
\* content makes json.load raise JSONDecodeError, which is not caught.
initialize_data ==
  LET default == Student("New Student", "000000",
                         Study_program("Undeclared Program", 0))
  IN /\ IF file = Missing
          THEN /\ student' = default
               /\ IF Student_to_dict_raises(default)
                    THEN /\ file' = EmptyFile
                         /\ ret' = [op |-> "__init__", ok |-> FALSE,
                                    msg |-> "AttributeError"]
                    ELSE /\ file' = save_student_data(default)
                         /\ ret' = [op |-> "__init__", ok |-> TRUE, msg |-> ""]
          ELSE IF file = EmptyFile
          THEN /\ student' = None
               /\ ret' = [op |-> "__init__", ok |-> FALSE,
                          msg |-> "JSONDecodeError"]
               /\ UNCHANGED file
          ELSE /\ student' = load_student_data(file)
               /\ ret' = [op |-> "__init__", ok |-> TRUE, msg |-> ""]
               /\ UNCHANGED file
     /\ resources' = <<>>
     /\ UNCHANGED <<now, resources_file, browser>>

\* The clock advances between two calls.
Tick ==
  /\ now < MaxClock
  /\ now' = now + 1
  /\ UNCHANGED <<student, file, ret, resource_vars>>

update_student_info(name, matriculation_number, study_program, study_goal) ==
  LET updated == [student EXCEPT
                    !.name = name,
                    !.matriculation_number = matriculation_number,
                    !.study_program.name = study_program,
                    !.study_goal = study_goal]
  IN /\ student' = updated
     /\ file' = save_student_data(updated)
     /\ ret' = [op |-> "update_student_info",
                ok |-> TRUE, msg |-> ""]
     /\ UNCHANGED <<now, resource_vars>>

add_module(semester_number, name, credits, exam_type, grade_str) ==
  LET sp == student.study_program
      created == get_semester(sp, semester_number) = 0
      sp1 == IF created THEN add_semester(sp, Semester(semester_number))
             ELSE sp
      semester == get_semester(sp1, semester_number)
      id == module_id(name, now)
      parsed == add_module_grade(grade_str)
      new_module == Modul(id, name, credits, exam_type, parsed.grade)
      sp2 == [sp1 EXCEPT !.semesters[semester] =
                add_module_to_semester(@, new_module)]
  IN /\ UNCHANGED <<now, resource_vars>>
     /\ IF ~parsed.ok
          THEN /\ ret' = [op |-> "add_module", ok |-> FALSE,
                          msg |-> "Not a valid grade or 'a' for accepted. Please try again."]
               /\ student' = [student EXCEPT !.study_program = sp1]
               /\ file' = file
          ELSE /\ ret' = [op |-> "add_module", ok |-> TRUE,
                          msg |-> "Module added successfully."]
               /\ student' = [student EXCEPT !.study_program = sp2]
               /\ file' = save_student_data(student')

edit_grade(id, new_grade_str) ==
  LET pos == find_module_by_id(student, id)
      parsed == edit_grade_grade(new_grade_str)
  IN /\ IF pos = <<0, 0>>
          THEN /\ UNCHANGED <<student, file>>
               /\ ret' = [op |-> "edit_grade", ok |-> FALSE,
                          msg |-> "Module not found."]
          ELSE IF ~parsed.ok
          THEN /\ UNCHANGED <<student, file>>
               /\ ret' = [op |-> "edit_grade", ok |-> FALSE,
                          msg |-> "Not a valid grade or 'a' for accepted. Please try again."]
          ELSE /\ student' = [student EXCEPT
                    !.study_program.semesters[pos[1]].modules[pos[2]].grade =
                      parsed.grade]
               /\ file' = save_student_data(student')
               /\ ret' = [op |-> "edit_grade", ok |-> TRUE,
                          msg |-> ""]
     /\ UNCHANGED <<now, resource_vars>>

delete_module(id) ==
  LET sp == student.study_program
      owners == {i \in 1..Len(sp.semesters) :
                   \E j \in 1..Len(sp.semesters[i].modules) :
                     sp.semesters[i].modules[j].id = id}
      first == CHOOSE i \in owners : \A j \in owners : i <= j
      IsOtherModule(modul) == modul.id # id
      remaining == SelectSeq(sp.semesters[first].modules, IsOtherModule)
      sp1 == [sp EXCEPT !.semesters[first].modules = remaining]
      sp2 == IF remaining = <<>>
               THEN remove_semester(sp1, sp.semesters[first].number)
               ELSE sp1
  IN /\ IF owners = {}
          THEN /\ UNCHANGED <<student, file>>
               /\ ret' = [op |-> "delete_module",  ok |-> FALSE, msg |-> ""]
          ELSE /\ student' = [student EXCEPT !.study_program = sp2]
               /\ file' = save_student_data(student')
               /\ ret' = [op |-> "delete_module",  ok |-> TRUE, msg |-> ""]
     /\ UNCHANGED <<now, resource_vars>>

\* The credits of the first semester only.
get_total_credits_first_semester(st) ==
  IF st.study_program.semesters = <<>> THEN 0
  ELSE SumCredits(st.study_program.semesters[1].modules)

\* get_total_credits of the facade.
get_total_credits(st) == Study_program_get_total_credits(st.study_program)

IsCompleted(modul) ==
  modul.grade # None /\ status(modul) \in {"passed", "accepted"}

\* The completed credits with every graded module counted.
get_completed_credits_any_grade(st) ==
  LET IsGraded(modul) == modul.grade # None
  IN SumCredits(SelectSeq(AllModules(st.study_program.semesters), IsGraded))

get_completed_credits(st) ==
  SumCredits(SelectSeq(AllModules(st.study_program.semesters), IsCompleted))

\* The progress with the test total_credits != 0.
calculate_progress_nonzero(st) ==
  LET completed_credits == get_completed_credits(st)
      total_credits == get_total_credits(st)
  IN IF total_credits # 0 THEN Fraction(completed_credits * 100, total_credits)
     ELSE Fraction(0, 1)

\* (completed_credits / total_credits) * 100, or 0: the percentage as a
\* fraction.
calculate_progress(st) ==
  LET completed_credits == get_completed_credits(st)
      total_credits == get_total_credits(st)
  IN IF total_credits > 0 THEN Fraction(completed_credits * 100, total_credits)
     ELSE Fraction(0, 1)

HasNumericGrade(modul) == modul.grade # None /\ IsFloat(modul.grade.grade)

RECURSIVE SumGrades(_)
SumGrades(modules) ==
  IF modules = <<>> THEN 0
  ELSE Head(modules).grade.grade.float + SumGrades(Tail(modules))

\* The average with the sum divided by the number of all modules.
calculate_average_grade_all_modules(st) ==
  LET all == AllModules(st.study_program.semesters)
      grades == SelectSeq(all, HasNumericGrade)
  IN IF grades = <<>> THEN None
     ELSE Fraction(SumGrades(grades), Len(all))

\* sum(grades) / len(grades) in tenths, or None.
calculate_average_grade(st) ==
  LET grades == SelectSeq(AllModules(st.study_program.semesters),
                          HasNumericGrade)
  IN IF grades = <<>> THEN None
     ELSE Fraction(SumGrades(grades), Len(grades))

get_resources ==
  /\ resources' = load_resources(resources_file)
  /\ ret' = [op |-> "get_resources", ok |-> TRUE, msg |-> ""]
  /\ UNCHANGED <<student, file, now, resources_file, browser>>

add_resource(name, url) ==
  /\ resources_file' =
       save_resources(Append(load_resources(resources_file),
                             Resource_to_dict(Resource(name, url))))
  /\ ret' = [op |-> "add_resource", ok |-> TRUE, msg |-> ""]
  /\ UNCHANGED <<student, file, now, resources, browser>>

\* list.pop(index): the list without the element at the index, counted from
\* the end when the index is negative; raises IndexError outside
\* -len(list) .. len(list) - 1.
list_pop_raises(list, index) == index < -Len(list) \/ index >= Len(list)

\* list.pop that removes the last element whatever the index.
list_pop_last(list, index) == SubSeq(list, 1, Len(list) - 1)

list_pop(list, index) ==
  LET k == IF index < 0 THEN Len(list) + index + 1 ELSE index + 1
  IN SubSeq(list, 1, k - 1) \o SubSeq(list, k + 1, Len(list))

delete_resource(index) ==
  LET list == load_resources(resources_file)
  IN /\ IF list_pop_raises(list, index)
          THEN /\ ret' = [op |-> "delete_resource", ok |-> FALSE, msg |-> ""]
               /\ UNCHANGED resources_file
          ELSE /\ ret' = [op |-> "delete_resource", ok |-> TRUE, msg |-> ""]
               /\ resources_file' = save_resources(list_pop(list, index))
     /\ UNCHANGED <<student, file, now, resources, browser>>

open_resource(index) ==
  /\ IF 0 <= index /\ index < Len(resources)
       THEN /\ browser' = resources[index + 1].url
            /\ ret' = [op |-> "open_resource", ok |-> TRUE, msg |-> ""]
       ELSE /\ UNCHANGED browser
            /\ ret' = [op |-> "open_resource", ok |-> FALSE, msg |-> ""]
  /\ UNCHANGED <<student, file, now, resources_file, resources>>

\* The ids a caller can pass: those of the modules shown, and one of no module.
AbsentId == module_id(<<"z">>, 0)

KnownIds ==
  LET all == AllModules(student.study_program.semesters)
  IN {all[i].id : i \in 1..Len(all)} \cup {AbsentId}

UpdateStudentInfo ==
  \E p \in Profiles :
    update_student_info(p.name, p.matriculation_number, p.study_program,
                        p.study_goal)

AddModule ==
  \E n \in SemesterNumbers, name \in ModuleNames, c \in CreditValues,
     e \in ExamTypes, g \in FewGradeInputs :
    /\ add_module_grade(g).ok =>
         Len(AllModules(student.study_program.semesters)) < MaxModules
    /\ add_module(n, name, c, e, g)

EditGrade == \E id \in KnownIds, g \in FewGradeInputs : edit_grade(id, g)

DeleteModule == \E id \in KnownIds : delete_module(id)

Next == Tick \/ UpdateStudentInfo \/ AddModule \/ EditGrade \/ DeleteModule

Spec == Init /\ [][Next]_vars

\* ------------------------------------------------------------------------
\* The specification of the module operations: the calls that change the
\* semesters and modules, without update_student_info.
\* ------------------------------------------------------------------------
NextModules == Tick \/ AddModule \/ EditGrade \/ DeleteModule

SpecModules == Init /\ [][NextModules]_vars

\* ------------------------------------------------------------------------
\* The specification of the calls that save the student, made within one
\* second.
\* ------------------------------------------------------------------------
NextStudent == UpdateStudentInfo \/ AddModule \/ EditGrade \/ DeleteModule

SpecStudent == Init /\ [][NextStudent]_vars

\* ------------------------------------------------------------------------
\* The specification of the grade rules: the modules of one semester, every
\* grade input.
\* ------------------------------------------------------------------------
GradedSemesterNumbers == {1}

AddGradedModule ==
  \E n \in GradedSemesterNumbers, name \in ModuleNames, c \in CreditValues,
     e \in ExamTypes, g \in GradeInputs :
    /\ add_module_grade(g).ok =>
         Len(AllModules(student.study_program.semesters)) < MaxGradedModules
    /\ add_module(n, name, c, e, g)

EditAnyGrade == \E id \in KnownIds, g \in GradeInputs : edit_grade(id, g)

NextGrades == AddGradedModule \/ EditAnyGrade \/ DeleteModule

SpecGrades == Init /\ [][NextGrades]_vars

\* ------------------------------------------------------------------------
\* The specification of the progress metrics: modules of several credits
\* and grades in two semesters.
\* ------------------------------------------------------------------------
MetricSemesterNumbers == {1, 2}

\* "Math"
MetricModuleNames == {<<"M", "a", "t", "h">>}

MetricCredits == {-5, 3, 5}

\* "", "a", "3.0", "5.0", "x"
MetricGradeInputs ==
  {<<>>, <<"a">>, <<"3", ".", "0">>, <<"5", ".", "0">>, <<"x">>}

AddMetricModule ==
  \E n \in MetricSemesterNumbers, name \in MetricModuleNames,
     c \in MetricCredits, e \in ExamTypes, g \in MetricGradeInputs :
    /\ Len(AllModules(student.study_program.semesters)) < MaxMetricModules
    /\ add_module(n, name, c, e, g)

EditMetricGrade ==
  \E id \in KnownIds, g \in MetricGradeInputs : edit_grade(id, g)

NextMetrics == AddMetricModule \/ EditMetricGrade \/ DeleteModule

SpecMetrics == Init /\ [][NextMetrics]_vars

\* ------------------------------------------------------------------------
\* The specification of the study program object: the methods of
\* Study_program and Semester called on self.student.study_program.
\* ------------------------------------------------------------------------
ProgramSemesterNumbers == 1..(MaxSemester + 1)

ProgramModules ==
  {Modul(module_id(name, 0), name, c, e, grade) :
     name \in ModuleNames, c \in CreditValues, e \in ExamTypes,
     grade \in {None, Grade(Float(30))}}

call_add_semester(semester) ==
  LET sp == student.study_program
  IN /\ IF add_semester_raises(sp, semester)
          THEN /\ ret' = [op |-> "add_semester", ok |-> FALSE,
                          msg |-> "ValueError"]
               /\ UNCHANGED student
          ELSE /\ ret' = [op |-> "add_semester", ok |-> TRUE, msg |-> ""]
               /\ student' = [student EXCEPT
                                !.study_program = add_semester(sp, semester)]
     /\ UNCHANGED <<file, now, resource_vars>>

call_remove_semester(semester_number) ==
  /\ ret' = [op |-> "remove_semester", ok |-> TRUE, msg |-> ""]
  /\ student' = [student EXCEPT !.study_program =
                   remove_semester(@, semester_number)]
  /\ UNCHANGED <<file, now, resource_vars>>

call_add_module_to_semester(semester_number, modul) ==
  LET semester == get_semester(student.study_program, semester_number)
  IN /\ semester # 0
     /\ ret' = [op |-> "add_module_to_semester", ok |-> TRUE, msg |-> ""]
     /\ student' = [student EXCEPT !.study_program.semesters[semester] =
                      add_module_to_semester(@, modul)]
     /\ UNCHANGED <<file, now, resource_vars>>

AddSemester ==
  \E n \in ProgramSemesterNumbers : call_add_semester(Semester(n))

RemoveSemester ==
  \E n \in ProgramSemesterNumbers : call_remove_semester(n)

AddModuleToSemester ==
  \E n \in ProgramSemesterNumbers, modul \in ProgramModules :
    /\ Len(AllModules(student.study_program.semesters)) < MaxModules
    /\ call_add_module_to_semester(n, modul)

NextProgram == AddSemester \/ RemoveSemester \/ AddModuleToSemester

SpecProgram == Init /\ [][NextProgram]_vars

\* ------------------------------------------------------------------------
\* The specification of the runs of the application: the process is started
\* on the student file that is there, or on none, serves calls of the facade
\* and ends.
\* ------------------------------------------------------------------------
\* A facade object exists: the constructor has returned.
Running == student # None /\ ~(ret.op = "__init__" /\ ~ret.ok)

InitStartup ==
  /\ file \in {Missing, InitialDocument}
  /\ student = None
  /\ now = 0
  /\ ret = [op |-> "exit", ok |-> TRUE, msg |-> ""]
  /\ resources_file = Missing
  /\ resources = <<>>
  /\ browser = None

Start == ~Running /\ initialize_data

\* The window is closed and the process ends.
Exit ==
  /\ Running
  /\ student' = None
  /\ resources' = <<>>
  /\ ret' = [op |-> "exit", ok |-> TRUE, msg |-> ""]
  /\ UNCHANGED <<file, now, resources_file, browser>>

StartedAddModule == Running /\ AddModule

StartedDeleteModule == Running /\ DeleteModule

NextStartup == Start \/ Exit \/ StartedAddModule \/ StartedDeleteModule

SpecStartup == InitStartup /\ [][NextStartup]_vars

\* ------------------------------------------------------------------------
\* The specification of the resource operations
\* ------------------------------------------------------------------------
\* The arguments of add_resource: a name and a URL, either of them possibly
\* the empty string.
ResourceInputs ==
  {[name |-> "IU Learn", url |-> "https://learn.iu.org"],
   [name |-> "", url |-> "https://example.org"],
   [name |-> "Library", url |-> ""]}

\* The indexes a caller can pass: in range, negative, and beyond the end.
ResourceIndexes ==
  ((-(MaxResources + 1))..(MaxResources + 1)) \cup {MaxResources + 3}

GetResources == get_resources

AddResource ==
  \E r \in ResourceInputs :
    /\ Len(load_resources(resources_file)) < MaxResources
    /\ add_resource(r.name, r.url)

DeleteResource == \E index \in ResourceIndexes : delete_resource(index)

OpenResource == \E index \in ResourceIndexes : open_resource(index)

NextResources == GetResources \/ AddResource \/ DeleteResource \/ OpenResource

SpecResources == Init /\ [][NextResources]_vars

\* ------------------------------------------------------------------------
\* Vocabulary of the properties
\* ------------------------------------------------------------------------
Semesters == student.study_program.semesters

SemesterNumbersOf(sems) == {sems[i].number : i \in 1..Len(sems)}

ModuleIdsOf(sems) ==
  LET all == AllModules(sems) IN {all[i].id : i \in 1..Len(all)}

HasModuleWithId(semester, id) ==
  \E j \in 1..Len(semester.modules) : semester.modules[j].id = id

\* The sequence s without its element at position k.
RemoveAt(s, k) == SubSeq(s, 1, k - 1) \o SubSeq(s, k + 1, Len(s))

\* The last module of the semester numbered n.
LastModuleOf(sems, n) ==
  LET i == CHOOSE i \in 1..Len(sems) : sems[i].number = n
  IN sems[i].modules[Len(sems[i].modules)]

Accepted == Grade(Str(<<"a">>))

\* A grade as the data model allows it: absent, accepted, or 1.0 to 5.0.
IsDomainGrade(g) ==
  \/ g = None
  \/ g = Accepted
  \/ IsFloat(g.grade) /\ 10 <= g.grade.float /\ g.grade.float <= 50

\* A grade input that denotes a number in [1.0, 5.0].
IsNumberInRange(g) ==
  float(g).ok /\ 10 <= float(g).value /\ float(g).value <= 50

\* A grade input the rules name as valid: "", "a"/"A", or 1.0 to 5.0.
IsValidGradeInput(g) ==
  g = <<>> \/ lower(g) = <<"a">> \/ IsNumberInRange(g)

\* A grade input that stays invalid however whitespace is read: not blank,
\* not "a"/"A" and not a number in [1.0, 5.0], as "6.0", "abc" and "-1".
IsInvalidGradeInput(g) ==
  /\ strip(g) # <<>>
  /\ lower(strip(g)) # <<"a">>
  /\ ~IsNumberInRange(g)

\* The result add_module has when the grade input g is one the rules accept
\* as the marker (isMarker) or as a number, or reject.
AddModuleOutcome(n, g, isMarker) ==
  IF g = <<>>
    THEN ret'.ok /\ LastModuleOf(Semesters', n).grade = None
  ELSE IF isMarker
    THEN ret'.ok /\ LastModuleOf(Semesters', n).grade = Accepted
  ELSE IF IsNumberInRange(g)
    THEN ret'.ok
         /\ LastModuleOf(Semesters', n).grade = Grade(Float(float(g).value))
  ELSE ~ret'.ok /\ ret'.msg # ""

\* ------------------------------------------------------------------------
\* Properties
\* ------------------------------------------------------------------------

\* C1 as stated: add_module stores no grade for "", the accepted marker for
\* "a" in any letter case, and for any other string succeeds storing the
\* number iff the string is a number in [1.0, 5.0], failing with a message
\* otherwise.
C1_AddModuleGradeRuleAsStated ==
  [][ret'.op = "add_module" =>
       \A n \in GradedSemesterNumbers, name \in ModuleNames,
          c \in CreditValues, e \in ExamTypes, g \in GradeInputs :
         add_module(n, name, c, e, g) =>
           AddModuleOutcome(n, g, lower(g) = <<"a">>)]_vars

\* C1 as amended: add_module stores no grade for "", the accepted marker for
\* "a" in any letter case with or without surrounding whitespace, and for any
\* other string succeeds storing the number iff the string is a number in
\* [1.0, 5.0], failing with a message otherwise.
C1_AddModuleGradeRule ==
  [][ret'.op = "add_module" =>
       \A n \in GradedSemesterNumbers, name \in ModuleNames,
          c \in CreditValues, e \in ExamTypes, g \in GradeInputs :
         add_module(n, name, c, e, g) =>
           AddModuleOutcome(n, g, lower(strip(g)) = <<"a">>)]_vars

\* add_module has stored the number of the grade input " 2.5".
C1_Witness ==
  /\ ret.op = "add_module"
  /\ ret.ok
  /\ \E i \in 1..Len(Semesters) :
       /\ Semesters[i].modules # <<>>
       /\ Semesters[i].modules[Len(Semesters[i].modules)].grade
            = Grade(Float(25))

\* C2: edit_grade on an existing module with a grade input that is neither
\* empty, nor "a"/"A", nor a number in [1.0, 5.0] returns a failure, leaves
\* the grades of the modules as they were and persists nothing.
C2_EditGradeRejectsInvalid ==
  [][\A id \in KnownIds, g \in GradeInputs :
       (/\ edit_grade(id, g)
        /\ id \in ModuleIdsOf(Semesters)
        /\ IsInvalidGradeInput(g)) =>
         (/\ ~ret'.ok
          /\ Semesters' = Semesters
          /\ file' = file)]_vars

\* C3: add_module with a grade input that fails to parse returns
\* (False, message) and changes neither the in-memory student nor the
\* persisted document, whether or not the semester exists.
C3_FailedAddModuleMutatesNothing ==
  [][\A n \in SemesterNumbers, name \in ModuleNames, c \in CreditValues,
        e \in ExamTypes, g \in FewGradeInputs :
       (add_module(n, name, c, e, g) /\ ~IsValidGradeInput(g)) =>
         (/\ ~ret'.ok
          /\ ret'.msg # ""
          /\ student' = student
          /\ file' = file)]_vars

\* C4: in every reachable state every module's grade is absent, the accepted
\* marker, or a number in [1.0, 5.0].
C4_GradesInDomain ==
  \A i \in 1..Len(Semesters) :
    \A j \in 1..Len(Semesters[i].modules) :
      IsDomainGrade(Semesters[i].modules[j].grade)

\* C5: no semester with zero modules exists in the in-memory study program
\* or in the persisted student document.
C5_NoEmptySemester ==
  /\ \A i \in 1..Len(Semesters) : Semesters[i].modules # <<>>
  /\ \A i \in 1..Len(file.study_program.semesters) :
       file.study_program.semesters[i].modules # <<>>

\* C6: the semesters list is strictly ascending by number.
C6_SemestersAscending ==
  \A i \in 1..Len(Semesters) :
    \A j \in 1..Len(Semesters) :
      i < j => Semesters[i].number < Semesters[j].number

\* Two semesters, the first of which was created after the second.
C6_Witness ==
  /\ Len(Semesters) = 2
  /\ Semesters[1].modules # <<>>
  /\ Semesters[2].modules # <<>>
  /\ Semesters[1].modules[1].id.ts > Semesters[2].modules[1].id.ts

\* C7: all module ids of the program are pairwise distinct.
C7_ModuleIdsDistinct ==
  LET all == AllModules(Semesters)
  IN \A i \in 1..Len(all) : \A j \in 1..Len(all) :
       i # j => all[i].id # all[j].id

\* C8: status() is 'none' without a grade, 'accepted' for the accepted
\* marker, 'passed' for a number <= 4.0 and 'none' for a number > 4.0, and
\* nothing else.
C8_StatusOfGrade ==
  \A i \in 1..Len(Semesters) :
    \A j \in 1..Len(Semesters[i].modules) :
      LET m == Semesters[i].modules[j]
      IN /\ status(m) \in {"none", "accepted", "passed"}
         /\ m.grade = None => status(m) = "none"
         /\ m.grade = Accepted => status(m) = "accepted"
         /\ (m.grade # None /\ IsFloat(m.grade.grade)) =>
              status(m) = IF m.grade.grade.float <= 40 THEN "passed"
                          ELSE "none"

\* A module with the failing numeric grade 5.0, whose status is 'none'.
C8_Witness ==
  LET all == AllModules(Semesters)
  IN \E i \in 1..Len(all) : all[i].grade = Grade(Float(50))

\* C9: a successful add_module for a number that is not present adds exactly
\* one semester holding exactly the new module, at the position that keeps
\* the list ascending, and keeps all other semesters and their order;
\* add_module for a present number creates no semester and, when it succeeds,
\* appends the module to the end of that semester.
C9_AddModulePlacesModule ==
  [][ret'.op = "add_module" =>
     \A n \in SemesterNumbers, name \in ModuleNames, c \in CreditValues,
        e \in ExamTypes, g \in FewGradeInputs :
       add_module(n, name, c, e, g) =>
         LET old == Semesters
             new == Semesters'
             IsNew(m) == m.name = name /\ m.credits = c /\ m.exam_type = e
         IN IF n \notin SemesterNumbersOf(old)
              THEN ret'.ok =>
                     /\ Len(new) = Len(old) + 1
                     /\ \E k \in 1..Len(new) :
                          /\ new[k].number = n
                          /\ Len(new[k].modules) = 1
                          /\ IsNew(new[k].modules[1])
                          /\ RemoveAt(new, k) = old
                          /\ \A i \in 1..Len(new) :
                               /\ i < k => new[i].number < n
                               /\ i > k => new[i].number > n
              ELSE /\ Len(new) = Len(old)
                   /\ ret'.ok =>
                        \E k \in 1..Len(old) :
                          /\ old[k].number = n
                          /\ new[k].number = n
                          /\ Len(new[k].modules) = Len(old[k].modules) + 1
                          /\ SubSeq(new[k].modules, 1, Len(old[k].modules))
                               = old[k].modules
                          /\ IsNew(new[k].modules[Len(new[k].modules)])
                          /\ \A i \in 1..Len(old) : i # k => new[i] = old[i]
    ]_vars

\* add_module has put a new semester in front of an older one, and a second
\* module behind the first one of a semester.
C9_Witness ==
  /\ ret.op = "add_module"
  /\ ret.ok
  /\ Len(Semesters) = 2
  /\ Semesters[1].modules # <<>>
  /\ Semesters[2].modules # <<>>
  /\ Semesters[1].modules[1].id.ts > Semesters[2].modules[1].id.ts
  /\ file = Student_to_dict(student)

\* C10: delete_module(id) on the only module of its semester removes the
\* semester; on a module whose semester holds other modules it leaves the
\* semester with exactly the other modules; both return True and persist.
C10_DeleteModulePrunesSemester ==
  [][\A id \in KnownIds :
       (delete_module(id) /\ id \in ModuleIdsOf(Semesters)) =>
         LET old == Semesters
             new == Semesters'
         IN /\ ret'.ok
            /\ file' = Student_to_dict(student')
            /\ \A i \in 1..Len(old) : \A j \in 1..Len(old[i].modules) :
                 old[i].modules[j].id = id =>
                   IF Len(old[i].modules) = 1
                     THEN old[i].number \notin SemesterNumbersOf(new)
                     ELSE \E k \in 1..Len(new) :
                            /\ new[k].number = old[i].number
                            /\ new[k].modules = RemoveAt(old[i].modules, j)
    ]_vars

\* ------------------------------------------------------------------------
\* Vocabulary of the metrics: the modules by their positions
\* ------------------------------------------------------------------------
Positions ==
  UNION {{<<i, j>> : j \in 1..Len(Semesters[i].modules)} :
           i \in 1..Len(Semesters)}

ModuleAt(p) == Semesters[p[1]].modules[p[2]]

RECURSIVE CreditsAt(_)
CreditsAt(positions) ==
  IF positions = {} THEN 0
  ELSE LET p == CHOOSE q \in positions : TRUE
       IN ModuleAt(p).credits + CreditsAt(positions \ {p})

\* C11: in every reachable state get_total_credits() is the sum of the
\* credits of all modules present in all semesters, whatever their grade or
\* status and whatever the stored target total_credits.
C11_TotalCreditsIsSumOfModules == get_total_credits(student) = CreditsAt(Positions)

\* Two modules, one ungraded and one passed, whose credits sum to 8 while
\* the stored target is another number.
C11_Witness ==
  /\ get_total_credits(student) = 8
  /\ student.study_program.total_credits # 8
  /\ \E p, q \in Positions :
       /\ status(ModuleAt(p)) = "none"
       /\ status(ModuleAt(q)) = "passed"

\* C12: get_completed_credits() is the sum of the credits of exactly the
\* modules whose status is 'passed' or 'accepted'; an ungraded module and a
\* module with a numeric grade above 4.0 are not among them.
C12_CompletedCreditsCountPassedAndAccepted ==
  LET completed == {p \in Positions :
                      status(ModuleAt(p)) \in {"passed", "accepted"}}
  IN /\ get_completed_credits(student) = CreditsAt(completed)
     /\ \A p \in Positions :
          \/ ModuleAt(p).grade = None
          \/ IsFloat(ModuleAt(p).grade.grade) /\ ModuleAt(p).grade.grade.float > 40
          => p \notin completed

\* A module graded 5.0 with 5 credits next to an accepted module with 3.
C12_Witness ==
  /\ get_completed_credits(student) = 3
  /\ \E p, q \in Positions :
       /\ ModuleAt(p).grade = Grade(Float(50)) /\ ModuleAt(p).credits = 5
       /\ ModuleAt(q).grade = Accepted /\ ModuleAt(q).credits = 3

CompletedPositions ==
  {p \in Positions : status(ModuleAt(p)) \in {"passed", "accepted"}}

\* C13 as stated: calculate_progress() returns 0 when the sum of the
\* credits of the registered modules is 0, and completed / total x 100 for
\* every other sum.
C13_ProgressAsStated ==
  LET total == CreditsAt(Positions)
  IN calculate_progress(student) =
       IF total = 0 THEN Fraction(0, 1)
       ELSE Fraction(CreditsAt(CompletedPositions) * 100, total)

\* C13: calculate_progress() returns 0 when the sum of the credits of the
\* registered modules is 0 or negative, and completed / total x 100 when it
\* is positive.
C13_Progress ==
  LET total == CreditsAt(Positions)
  IN calculate_progress(student) =
       IF total <= 0 THEN Fraction(0, 1)
       ELSE Fraction(CreditsAt(CompletedPositions) * 100, total)

\* 3 of 8 credits completed: the progress is 37.5.
C13_Witness ==
  /\ CreditsAt(Positions) = 8
  /\ CreditsAt(CompletedPositions) = 3
  /\ calculate_progress(student) = Fraction(75, 2)

NumericPositions == {p \in Positions : HasNumericGrade(ModuleAt(p))}

RECURSIVE GradesAt(_)
GradesAt(positions) ==
  IF positions = {} THEN 0
  ELSE LET p == CHOOSE q \in positions : TRUE
       IN ModuleAt(p).grade.grade.float + GradesAt(positions \ {p})

\* C14: calculate_average_grade() returns None when no module carries a
\* numeric grade, and otherwise the arithmetic mean of the grades of exactly
\* the modules with a numeric grade, failing grades included; the accepted
\* and the ungraded modules enter neither the sum nor the count.
C14_AverageOverNumericGrades ==
  calculate_average_grade(student) =
    IF NumericPositions = {} THEN None
    ELSE Fraction(GradesAt(NumericPositions), Cardinality(NumericPositions))

\* A module graded 5.0 next to an accepted module: the average is 5.0.
C14_Witness ==
  /\ calculate_average_grade(student) = Fraction(50, 1)
  /\ \E p \in Positions : ModuleAt(p).grade = Accepted
  /\ Cardinality(NumericPositions) = 1

Math == <<"M", "a", "t", "h">>

\* C15: from the empty study program, add_module(1, "Math", 5, "written",
\* "3.0") succeeds, and after it the total credits are 5, the completed
\* credits 5, the average grade 3.0 and the progress 100.
C15_FirstModuleMetrics ==
  [][/\ ret'.op = "add_module"
     /\ Semesters = <<>>
     /\ add_module(1, Math, 5, "written", <<"3", ".", "0">>)
     => /\ ret'.ok
        /\ get_total_credits(student') = 5
        /\ get_completed_credits(student') = 5
        /\ calculate_average_grade(student') = Fraction(30, 1)
        /\ calculate_progress(student') = Fraction(100, 1)]_vars

\* The program right after that call.
C15_Witness ==
  /\ ret.op = "add_module" /\ ret.ok
  /\ Len(Semesters) = 1 /\ Semesters[1].number = 1
  /\ Len(Semesters[1].modules) = 1
  /\ Semesters[1].modules[1].name = Math
  /\ Semesters[1].modules[1].credits = 5
  /\ Semesters[1].modules[1].grade = Grade(Float(30))
  /\ calculate_progress(student) = Fraction(100, 1)

\* ------------------------------------------------------------------------
\* Vocabulary of the resources
\* ------------------------------------------------------------------------
StoredResources == load_resources(resources_file)

StoredResourcesAfter == load_resources(resources_file')

\* C16: for every stored resource list and every index that is not one of
\* its positions 0 .. length-1, the negative indexes included,
\* delete_resource(index) returns failure and leaves the stored list as it
\* was.
C16_DeleteResourceOutOfRange ==
  [][ret'.op = "delete_resource" =>
       \A index \in ResourceIndexes :
         /\ delete_resource(index)
         /\ index < 0 \/ index >= Len(StoredResources)
         => /\ ~ret'.ok
            /\ StoredResourcesAfter = StoredResources]_vars

\* C17: after any sequence of add_resource, delete_resource and
\* get_resources calls, open_resource(i) succeeds and hands the URL of the
\* i-th entry of the stored list to the browser when 0 <= i < length of the
\* stored list, and fails without opening anything for every other i.
C17_OpenResourceResolvesStoredList ==
  [][ret'.op = "open_resource" =>
       \A i \in ResourceIndexes :
         open_resource(i) =>
           IF 0 <= i /\ i < Len(StoredResources)
             THEN ret'.ok /\ browser' = StoredResources[i + 1].url
             ELSE ~ret'.ok /\ browser' = browser]_vars

\* C18: add_resource(name, url) with an empty name or an empty url leaves
\* the stored list unchanged, and every entry of the stored list has a
\* non-empty name and a non-empty url.
C18_AddResourceRejectsEmpty ==
  /\ [][ret'.op = "add_resource" =>
          \A r \in ResourceInputs :
            /\ add_resource(r.name, r.url)
            /\ r.name = "" \/ r.url = ""
            => StoredResourcesAfter = StoredResources]_vars
  /\ [](\A k \in 1..Len(StoredResources) :
          StoredResources[k].name # "" /\ StoredResources[k].url # "")

\* C20: while the resources file does not exist, load_resources gives the
\* empty list, get_resources returns the empty list without an error, and
\* add_resource makes the stored list exactly the added resource.
C20_MissingResourcesFile ==
  [][resources_file = Missing =>
       /\ load_resources(resources_file) = <<>>
       /\ ret'.op = "get_resources" /\ get_resources
          => ret'.ok /\ resources' = <<>> /\ resources_file' = Missing
       /\ ret'.op = "add_resource" =>
            \A r \in ResourceInputs :
              add_resource(r.name, r.url) =>
                StoredResourcesAfter = <<[name |-> r.name, url |-> r.url]>>]_vars

\* The first resource was added, the list returned before it was empty.
C20_Witness ==
  /\ ret.op = "add_resource"
  /\ resources = <<>>
  /\ StoredResources = <<[name |-> "IU Learn", url |-> "https://learn.iu.org"]>>

\* ------------------------------------------------------------------------
\* The first run
\* ------------------------------------------------------------------------
DefaultStudent ==
  [name |-> "New Student", matriculation_number |-> "000000",
   study_program |-> [name |-> "Undeclared Program", total_credits |-> 0,
                      semesters |-> <<>>],
   study_goal |-> 0]

\* C19: when the student file does not exist at the construction of the
\* facade, the initialization completes without an error, the student in
\* memory is the default one (New Student, 000000, a study program without
\* semesters and with zero credits, study_goal 0.0), and the student file
\* holds that default student.
C19_FirstRunCreatesDefaultStudent ==
  [][file = Missing /\ initialize_data =>
       /\ ret'.ok
       /\ student' = DefaultStudent
       /\ file' = Student_to_dict(DefaultStudent)]_vars

\* ------------------------------------------------------------------------
\* Persistence of the student
\* ------------------------------------------------------------------------
StudentMutations ==
  {"add_module", "edit_grade", "delete_module", "update_student_info"}

\* C21: after every call of add_module, edit_grade, delete_module or
\* update_student_info that returns success, the student document is the
\* serialization of the student in memory; and a call that does not return
\* success writes no document.
C21_SuccessfulMutationsPersist ==
  [][now' = now /\ ret'.op \in StudentMutations =>
       /\ ret'.ok => file' = Student_to_dict(student')
       /\ ~ret'.ok => file' = file]_vars

\* A grade was edited after the profile was updated, and the document holds
\* both.
C21_Witness ==
  /\ ret.op = "edit_grade" /\ ret.ok
  /\ student.study_goal = 20
  /\ Len(Semesters) > 0
  /\ file = Student_to_dict(student)

\* ------------------------------------------------------------------------
\* Calls with the id of no module
\* ------------------------------------------------------------------------
\* The ids a call can carry: of the modules that are or were in the program,
\* and of a module that never was.
CandidateIds ==
  {AbsentId} \cup {module_id(name, t) : name \in ModuleNames, t \in 0..MaxClock}

\* C22: for every id that no module of any semester has, edit_grade(id, g)
\* returns the failure "Module not found." for every g and delete_module(id)
\* returns False, and both leave the student in memory and the student
\* document unchanged.
C22_AbsentIdFails ==
  [][\A id \in CandidateIds \ ModuleIdsOf(Semesters) :
       /\ ret'.op = "edit_grade" =>
            \A g \in GradeInputs :
              edit_grade(id, g) =>
                /\ ~ret'.ok /\ ret'.msg = "Module not found."
                /\ student' = student /\ file' = file
       /\ ret'.op = "delete_module" =>
            (delete_module(id) =>
               ~ret'.ok /\ student' = student /\ file' = file)]_vars

\* edit_grade has failed on a program with a module whose id differs from
\* an id of the same name by the timestamp only.
C22_Witness ==
  /\ ret = [op |-> "edit_grade", ok |-> FALSE, msg |-> "Module not found."]
  /\ ModuleIdsOf(Semesters) # {}
  /\ \E id \in CandidateIds \ ModuleIdsOf(Semesters) :
       \E known \in ModuleIdsOf(Semesters) : known.slug = id.slug

\* ------------------------------------------------------------------------
\* Serialization of the grade
\* ------------------------------------------------------------------------
GradeRoundTrips(modul) ==
  Modul_from_dict(Modul_to_dict(modul)).grade = modul.grade

ValidGradeInputs == {g \in GradeInputs : IsValidGradeInput(g)}

\* The grade the rules give a valid input: absent, the marker, the number.
GradeOfValidInput(g) ==
  IF g = <<>> THEN None
  ELSE IF lower(g) = <<"a">> THEN Accepted
  ELSE Grade(Float(float(g).value))

\* C23: for every valid grade input ("", "a"/"A", a decimal in [1.0, 5.0])
\* add_module and edit_grade accept the input, and the grade of the module
\* (absent, accepted marker or the number) is the same after Modul.to_dict
\* followed by Modul.from_dict.
C23_ValidGradeRoundTrips ==
  [][/\ ret'.op = "add_module" =>
          \A g \in ValidGradeInputs, n \in GradedSemesterNumbers,
             name \in ModuleNames, c \in CreditValues, e \in ExamTypes :
            add_module(n, name, c, e, g) =>
              /\ ret'.ok
              /\ LastModuleOf(Semesters', n).grade = GradeOfValidInput(g)
              /\ GradeRoundTrips(LastModuleOf(Semesters', n))
     /\ ret'.op = "edit_grade" =>
          \A g \in ValidGradeInputs, id \in ModuleIdsOf(Semesters) :
            edit_grade(id, g) =>
              /\ ret'.ok
              /\ LET pos == find_module_by_id(student, id)
                     edited == Semesters'[pos[1]].modules[pos[2]]
                 IN /\ edited.grade = GradeOfValidInput(g)
                    /\ GradeRoundTrips(edited)]_vars

\* A module with the accepted marker next to a module with a number, both
\* kept by the round trip.
C23_Witness ==
  /\ ret.ok
  /\ \E p, q \in Positions :
       /\ ModuleAt(p).grade = Accepted
       /\ ModuleAt(q).grade = Grade(Float(41))
       /\ GradeRoundTrips(ModuleAt(p)) /\ GradeRoundTrips(ModuleAt(q))

\* ------------------------------------------------------------------------
\* The target of the study program
\* ------------------------------------------------------------------------
ModuleOperations == {"add_module", "edit_grade", "delete_module"}

\* C24: the stored target total_credits of the study program does not depend
\* on the credits of the modules: no module operation changes it, and
\* Student.to_dict followed by Student.from_dict gives the same target,
\* whatever the target and the modules.
C24_TargetCreditsIndependent ==
  /\ [][now' = now /\ ret'.op \in ModuleOperations =>
          student'.study_program.total_credits =
            student.study_program.total_credits]_vars
  /\ [](Student_from_dict(Student_to_dict(student)).study_program.total_credits
          = student.study_program.total_credits)

\* ------------------------------------------------------------------------
\* The methods of Study_program
\* ------------------------------------------------------------------------
IsAscending(sems) ==
  \A i \in 1..Len(sems) :
    \A j \in 1..Len(sems) : i < j => sems[i].number < sems[j].number

\* C25: add_semester fails with an error and leaves the list of semesters
\* unchanged when a semester of the number exists; otherwise it inserts the
\* semester, keeps all the semesters there were in their order, and a list
\* that was ascending by number is ascending afterwards.
C25_AddSemester ==
  [][ret'.op = "add_semester" =>
       \A n \in ProgramSemesterNumbers :
         call_add_semester(Semester(n)) =>
           IF n \in SemesterNumbersOf(Semesters)
             THEN ~ret'.ok /\ Semesters' = Semesters
             ELSE /\ ret'.ok
                  /\ \E k \in 1..Len(Semesters') :
                       /\ Semesters'[k] = Semester(n)
                       /\ RemoveAt(Semesters', k) = Semesters
                  /\ IsAscending(Semesters) => IsAscending(Semesters')]_vars

\* A semester was inserted between two semesters that hold modules.
C25_Witness ==
  /\ ret.op = "add_semester" /\ ret.ok
  /\ Len(Semesters) = 3
  /\ Semesters[1].modules # <<>>
  /\ Semesters[2].modules = <<>>
  /\ Semesters[3].modules # <<>>

\* The semesters whose number is not n and that hold a module, in order.
KeptSemesters(sems, n) ==
  LET Kept(semester) == semester.number # n /\ semester.modules # <<>>
  IN SelectSeq(sems, Kept)

\* C26: remove_semester(n) leaves exactly the semesters whose number is not
\* n and that hold at least one module, in their order; a semester of
\* another number that holds a module is never removed, also when no
\* semester has the number n.
C26_RemoveSemester ==
  [][ret'.op = "remove_semester" =>
       \A n \in ProgramSemesterNumbers :
         call_remove_semester(n) =>
           /\ Semesters' = KeptSemesters(Semesters, n)
           /\ \A i \in 1..Len(Semesters) :
                Semesters[i].number # n /\ Semesters[i].modules # <<>>
                => \E k \in 1..Len(Semesters') : Semesters'[k] = Semesters[i]]_vars

\* remove_semester was called with a number that no semester had, or with
\* the number of one, and a semester with a module is left.
C26_Witness ==
  /\ ret.op = "remove_semester"
  /\ Len(Semesters) = 1
  /\ Len(Semesters[1].modules) = 2

\* ------------------------------------------------------------------------
\* The grade rules of the two operations
\* ------------------------------------------------------------------------
\* C27: add_module and edit_grade apply the same grade rules: for every
\* grade input, the whitespace-only strings, the marker with surrounding
\* whitespace and the numbers outside [1.0, 5.0] included, edit_grade on a
\* module accepts the input exactly when add_module accepts it, and then
\* stores the grade add_module stores.
C27_SameGradeRules ==
  [][ret'.op = "edit_grade" =>
       \A g \in GradeInputs, id \in ModuleIdsOf(Semesters) :
         edit_grade(id, g) =>
           /\ ret'.ok = add_module_grade(g).ok
           /\ ret'.ok =>
                LET pos == find_module_by_id(student, id)
                IN Semesters'[pos[1]].modules[pos[2]].grade =
                     add_module_grade(g).grade]_vars

\* ------------------------------------------------------------------------
\* The frame of delete_module
\* ------------------------------------------------------------------------
\* The modules of all semesters in order, each with the number of its
\* semester.
RECURSIVE PlacedModules(_)
PlacedModules(sems) ==
  IF sems = <<>> THEN <<>>
  ELSE [j \in 1..Len(Head(sems).modules) |->
          [number |-> Head(sems).number, modul |-> Head(sems).modules[j]]]
       \o PlacedModules(Tail(sems))

\* C28: a successful delete_module(id) removes exactly one module, one with
\* that id; every other module stays in its semester, in the same relative
\* order and with the same credits and grade, and the profile fields of the
\* student are unchanged.
C28_DeleteModuleRemovesOne ==
  [][ret'.op = "delete_module" =>
       \A id \in KnownIds :
         delete_module(id) /\ ret'.ok =>
           /\ \E k \in 1..Len(PlacedModules(Semesters)) :
                /\ PlacedModules(Semesters)[k].modul.id = id
                /\ PlacedModules(Semesters') =
                     RemoveAt(PlacedModules(Semesters), k)
           /\ student'.name = student.name
           /\ student'.matriculation_number = student.matriculation_number
           /\ student'.study_goal = student.study_goal
           /\ student'.study_program.name = student.study_program.name]_vars

\* ------------------------------------------------------------------------
\* The stored resource list by position
\* ------------------------------------------------------------------------
\* C29: a successful add_resource(name, url) makes the stored list the list
\* before with {name, url} appended at its end; a successful
\* delete_resource(i) with 0 <= i < length makes it the list before without
\* the element at position i, the others in their order; neither changes the
\* student document.
C29_ResourceListByPosition ==
  [][/\ ret'.op = "add_resource" =>
          \A r \in ResourceInputs :
            add_resource(r.name, r.url) /\ ret'.ok =>
              /\ StoredResourcesAfter =
                   Append(StoredResources, [name |-> r.name, url |-> r.url])
              /\ file' = file
     /\ ret'.op = "delete_resource" =>
          \A i \in ResourceIndexes :
            /\ delete_resource(i) /\ ret'.ok
            /\ 0 <= i /\ i < Len(StoredResources)
            => /\ StoredResourcesAfter = RemoveAt(StoredResources, i + 1)
               /\ file' = file]_vars

\* The first of the two resources that get_resources had returned was
\* deleted.
C29_Witness ==
  /\ ret.op = "delete_resource" /\ ret.ok
  /\ Len(resources) = 2
  /\ resources[1] # resources[2]
  /\ StoredResources = <<resources[2]>>

\* ------------------------------------------------------------------------
\* The range of the progress
\* ------------------------------------------------------------------------
\* C30: in every reachable state in which all module credits are >= 0,
\* get_completed_credits() <= get_total_credits() and calculate_progress()
\* lies in [0, 100].
C30_ProgressInRange ==
  (\A p \in Positions : ModuleAt(p).credits >= 0) =>
    /\ get_completed_credits(student) <= get_total_credits(student)
    /\ LET progress == calculate_progress(student)
       IN 0 <= progress.num /\ progress.num <= 100 * progress.den

\* A passed module of 5 credits in the second semester after a failed one of
\* 3 credits in the first: 5 of 8 credits, progress 62.5.
C30_Witness ==
  /\ Len(Semesters) = 2
  /\ \A p \in Positions : ModuleAt(p).credits >= 0
  /\ get_total_credits(student) = 8
  /\ get_completed_credits(student) = 5
  /\ Semesters[2].modules[1].credits = 5
  /\ calculate_progress(student) = Fraction(125, 2)

====
